---- MODULE Spec2Model ----
(***************************************************************************)
(* Model of eta_scanner/eta_congruent_gpu.cu: the residue filter, the      *)
(* exact square test, the per-thread kernel, the chunked dispatcher and    *)
(* main.                                                                   *)
(*                                                                         *)
(* The machine word of the program is uint64_t.  The model keeps every     *)
(* operation of the code but runs it on words of WordBits bits, so that    *)
(* the whole word range can be enumerated.  The constants of the code that *)
(* are derived from the word size are derived here in the same way: the    *)
(* sentinel ULLONG_MAX is 2^WordBits - 1 and the eta ceiling is            *)
(* floor(sqrt(2^(WordBits-1))) / 2, which is 1518500249 for 64 bits.       *)
(***************************************************************************)
EXTENDS Integers, Sequences, FiniteSets, TLC

\* ------------------------------------------------------------------ bounds
\* width of the machine word (64 in the code)
WordBits == 8
\* threads per block (256 in the code)
BLOCK_SIZE == 2
\* blocks per launch (65535 in the code)
MAX_GRID_DIM == 1
\* kernels that may sit in the stream before a launch has to wait
MaxInFlight == 2

\* --------------------------------------------------------- word arithmetic
TwoW == 2 ^ WordBits
ULLONG_MAX == TwoW - 1
Word == 0 .. ULLONG_MAX

\* uint64_t arithmetic wraps
U64(x) == x % TwoW

\* mathematical floor square root, by search; the reference the code is
\* compared with, not a model of the code
RECURSIVE RootFrom(_, _)
RootFrom(n, r) == IF (r + 1) * (r + 1) > n THEN r ELSE RootFrom(n, r + 1)
FloorSqrt(n) == RootFrom(n, 0)
IsPerfectSquare(n) == FloorSqrt(n) * FloorSqrt(n) = n

\* the literal 1518500249ULL of the kernel, for this word width
ETA_CEILING == FloorSqrt(2 ^ (WordBits - 1)) \div 2

\* --------------------------------------------------------------- the double
\* significand bits of an IEEE-754 double
DBL_MANT_DIG == 53

RECURSIVE BitLen(_)
BitLen(v) == IF v = 0 THEN 0 ELSE 1 + BitLen(v \div 2)

\* round to nearest, ties to even, to DBL_MANT_DIG significant bits
RoundNearestEven(v) ==
    IF BitLen(v) <= DBL_MANT_DIG THEN v
    ELSE LET e    == BitLen(v) - DBL_MANT_DIG
             unit == 2 ^ e
             q    == v \div unit
             r    == v % unit
             up   == (2 * r > unit) \/ (2 * r = unit /\ q % 2 = 1)
         IN  (IF up THEN q + 1 ELSE q) * unit

\* (uint64_t)((double)n * 0.5 + 1.0); values are carried doubled so that the
\* half of an odd n stays an integer; the cast truncates
NewtonSeed(n) ==
    LET asDouble2 == RoundNearestEven(2 * n)
        half2     == asDouble2 \div 2
        sum2      == RoundNearestEven(half2 + 2)
    IN  U64(sum2 \div 2)

\* one line `x = (x + n / x) >> 1`
NewtonStep(n, x) == U64(x + (n \div x)) \div 2

isqrt_uint64(n) ==
    IF n = 0 THEN 0
    ELSE LET x0 == NewtonSeed(n)
             x1 == NewtonStep(n, x0)
             x2 == NewtonStep(n, x1)
             x3 == NewtonStep(n, x2)
         IN  IF x3 > n \div x3 THEN x3 - 1 ELSE x3

\* ---------------------------------------------------------- residue filter
Q == <<3, 5, 7, 11, 13, 17, 19, 23, 29>>

r23 == {1, 2, 3, 4, 6, 8, 9, 12, 13, 16, 18, 22}
r29 == {1, 4, 5, 6, 7, 9, 13, 16, 20, 22, 23, 24, 25, 28}

\* mutant: a residue is missing from the table of 5
is_qr_mod_short(val, mod) ==
    LET v == val % mod
    IN  IF v = 0 THEN TRUE
        ELSE CASE mod = 3  -> v = 1
               [] mod = 5  -> v = 1
               [] mod = 7  -> v \in {1, 2, 4}
               [] mod = 11 -> v \in {1, 3, 4, 5, 9}
               [] mod = 13 -> v \in {1, 3, 4, 9, 10, 12}
               [] mod = 17 -> v \in {1, 2, 4, 8, 9, 13, 15, 16}
               [] mod = 19 -> v \in {1, 4, 5, 6, 7, 9, 11, 16, 17}
               [] mod = 23 -> v \in r23
               [] mod = 29 -> v \in r29
               [] OTHER    -> FALSE

is_qr_mod(val, mod) ==
    LET v == val % mod
    IN  IF v = 0 THEN TRUE
        ELSE CASE mod = 3  -> v = 1
               [] mod = 5  -> v \in {1, 4}
               [] mod = 7  -> v \in {1, 2, 4}
               [] mod = 11 -> v \in {1, 3, 4, 5, 9}
               [] mod = 13 -> v \in {1, 3, 4, 9, 10, 12}
               [] mod = 17 -> v \in {1, 2, 4, 8, 9, 13, 15, 16}
               [] mod = 19 -> v \in {1, 4, 5, 6, 7, 9, 11, 16, 17}
               [] mod = 23 -> v \in r23
               [] mod = 29 -> v \in r29
               [] OTHER    -> FALSE

\* ------------------------------------------------------------ kernel thread
\* `if (eta > n_end || eta == 0) return;`
OutOfChunk(eta, n_end) == eta > n_end \/ eta = 0

\* mutant: the ceiling is compared one index too late
AboveCeiling_late(eta) == eta > ETA_CEILING + 1

\* `if (eta > 1518500249ULL) return;`
AboveCeiling(eta) == eta > ETA_CEILING

\* `if (d2 > ULLONG_MAX - T) return;`
WouldOverflow(T, d2) == d2 > ULLONG_MAX - T

\* `uint64_t total = (T % q + d2 % q) % q;`
FilterTotal(T, d2, q) == ((T % q) + (d2 % q)) % q

\* the loop over Q with its break: survive stays true iff no modulus rejects
Survive(T, d2) ==
    \A i \in 1 .. Len(Q) : is_qr_mod(FilterTotal(T, d2, Q[i]), Q[i])

\* mutant: the product and the candidate are compared as 32-bit values
SquareTest_narrow(candidate) ==
    LET y    == isqrt_uint64(candidate)
        half == 2 ^ (WordBits \div 2)
    IN  (y * y) % half = candidate % half

\* `y = isqrt_uint64(candidate); if (y * y == candidate)`
SquareTest(candidate) ==
    LET y == isqrt_uint64(candidate) IN U64(y * y) = candidate

\* mutant: a plain store instead of the atomic minimum
atomicMin_store(old, val) == val

\* atomicMin(address, val): the value the register holds afterwards
atomicMin(old, val) == IF val < old THEN val ELSE old

\* what one thread of eta_congruent_kernel computes; stage names the line at
\* which it returns, the other fields the locals it has computed by then
KernelThread(T, n_start, n_end, blockIdx, threadIdx) ==
    LET eta  == U64(n_start + blockIdx * BLOCK_SIZE + threadIdx)
        d    == U64(2 * eta - 1)
        d2   == U64(d * d)
        cand == U64(T + d2)
        none == [eta |-> eta, d |-> 0, d2 |-> 0, candidate |-> 0]
    IN  IF OutOfChunk(eta, n_end) THEN [stage |-> "out_of_chunk"] @@ none
        ELSE IF AboveCeiling(eta) THEN [stage |-> "above_ceiling"] @@ none
        ELSE IF WouldOverflow(T, d2)
             THEN [stage |-> "overflow", eta |-> eta, d |-> d, d2 |-> d2,
                   candidate |-> 0]
        ELSE IF ~Survive(T, d2)
             THEN [stage |-> "filtered", eta |-> eta, d |-> d, d2 |-> d2,
                   candidate |-> 0]
        ELSE [stage |-> IF SquareTest(cand) THEN "hit" ELSE "not_square",
              eta |-> eta, d |-> d, d2 |-> d2, candidate |-> cand]

\* --------------------------------------------------------------- dispatcher
CHUNK_SIZE == U64(BLOCK_SIZE * MAX_GRID_DIM)

\* uint32_t is half the machine word
U32(x) == x % (2 ^ (WordBits \div 2))

\* `n1 = (n0 + CHUNK_SIZE - 1 < n_max) ? n0 + CHUNK_SIZE - 1 : n_max`
ChunkEnd(n0, nmax) ==
    IF U64(n0 + CHUNK_SIZE - 1) < nmax THEN U64(n0 + CHUNK_SIZE - 1) ELSE nmax

\* `grid = (uint32_t)((n1 - n0 + 1 + BLOCK_SIZE - 1) / BLOCK_SIZE)`
GridFor(n0, n1) ==
    U32(U64(U64(n1 - n0 + TwoW) + 1 + BLOCK_SIZE - 1) \div BLOCK_SIZE)

\* mutant: the next chunk starts one index too far
NextChunkStart_gap(n0) == U64(n0 + CHUNK_SIZE + 1)

\* `n0 += CHUNK_SIZE`
NextChunkStart(n0) == U64(n0 + CHUNK_SIZE)

\* the threads of a launch <<<grid, BLOCK_SIZE>>>
ThreadsOf(grid) == (0 .. grid - 1) \X (0 .. BLOCK_SIZE - 1)

\* --------------------------------------------------------------- strtoull
Digits == <<"0", "1", "2", "3", "4", "5", "6", "7", "8", "9">>
IsDigit(c) == \E i \in 1 .. 10 : Digits[i] = c
DigitVal(c) == (CHOOSE i \in 1 .. 10 : Digits[i] = c) - 1

RECURSIVE SkipSpace(_)
SkipSpace(s) == IF s # <<>> /\ Head(s) = " " THEN SkipSpace(Tail(s)) ELSE s

\* the digits of s up to the first non-digit; acc saturates above ULLONG_MAX
RECURSIVE Accumulate(_, _)
Accumulate(s, acc) ==
    IF s = <<>> \/ ~IsDigit(Head(s)) THEN acc
    ELSE LET nxt == acc * 10 + DigitVal(Head(s))
         IN  Accumulate(Tail(s), IF nxt > ULLONG_MAX THEN TwoW ELSE nxt)

\* strtoull(s, NULL, 10): blanks, an optional sign, digits; no digits give 0,
\* a value out of range gives ULLONG_MAX, a minus sign negates in uint64_t
strtoull(s) ==
    LET t    == SkipSpace(s)
        neg  == t # <<>> /\ Head(t) = "-"
        body == IF t # <<>> /\ Head(t) \in {"-", "+"} THEN Tail(t) ELSE t
        v    == Accumulate(body, 0)
    IN  IF v > ULLONG_MAX THEN ULLONG_MAX
        ELSE IF neg THEN U64(TwoW - v) ELSE v

\* ------------------------------------------------------------------- inputs
PROG == <<"e", "t", "a">>

\* the texts given for T
TArgs ==
    { <<"0">>, <<"3">>, <<"4">>, <<"1", "1">>, <<"1", "5">>, <<"1", "9">>,
      <<"5", "1">>,
      <<"6", "3">>, <<"1", "7", "4">>, <<"1", "7", "5">>, <<"1", "9", "5">>,
      <<"2", "5", "0">>, <<"9", "9", "9", "9">> }

\* the texts given for n_max
NArgs ==
    { <<"0">>, <<"x">>, <<"1">>, <<"3">>, <<"4">>, <<"5">>, <<"+", "6">>,
      <<" ", "9", "x">>, <<"1", "0">> }

\* the command lines the runs start from: argv[0], then the arguments
ArgVectors ==
    { <<PROG>>,
      <<PROG, <<"3">>>>,
      <<PROG, <<"3">>, <<"1", "0">>, <<"7">>>>,
      <<PROG, <<"3">>, <<"-", "1">>>> }
    \cup { <<PROG, t, n>> : t \in TArgs, n \in NArgs }

\* -------------------------------------------------------------------- state
VARIABLES
    argv,       \* the command line
    pc,         \* the statement main / search_eta_chunked is at
    T,          \* main's T, once parsed
    n_max,      \* main's n_max, once parsed
    d_min_eta,  \* the Global Minimum Register in device memory
    n0,         \* the chunk loop's variable
    stream,     \* launched kernels not yet retired, oldest first
    result,     \* main's result
    reads,      \* device-to-host copies of the register made so far
    evaluated,  \* what the threads that got past the ceiling computed
    stderr,     \* what was reported on the error stream
    warned,     \* whether the congruence warning was printed
    verdict,    \* the found / not-found line, once printed
    pq,         \* the printed |p - q|
    exit_code,  \* the status the process ended with
    u_call,     \* the function a direct call applied (function-level runs)
    u_T,        \* its first argument: T, n or val
    u_eta,      \* its eta
    u_q,        \* its modulus
    u_ret       \* what it returned

vars == <<argv, pc, T, n_max, d_min_eta, n0, stream, result, reads, evaluated,
          stderr, warned, verdict, pq, exit_code,
          u_call, u_T, u_eta, u_q, u_ret>>

progVars == <<argv, pc, T, n_max, d_min_eta, n0, stream, result, reads,
              evaluated, stderr, warned, verdict, pq, exit_code>>
unitVars == <<u_call, u_T, u_eta, u_q, u_ret>>

\* a variable that holds no value yet is <<>>, one that holds v is <<v>>
NoValue == <<>>
Val(v) == <<v>>
EXIT_FAILURE == 1
argc == Len(argv)

\* the register: not allocated, allocated with unspecified content, holding
\* a word, or freed
Register(st, v) == [state |-> st, value |-> v]
Live(reg) == reg.state = "live"

ProgInit ==
    /\ pc = "main"
    /\ T = 0
    /\ n_max = 0
    /\ d_min_eta = Register("unallocated", 0)
    /\ n0 = 0
    /\ stream = <<>>
    /\ result = NoValue
    /\ reads = 0
    /\ evaluated = {}
    /\ stderr = "none"
    /\ warned = FALSE
    /\ verdict = "none"
    /\ pq = NoValue
    /\ exit_code = NoValue

UnitIdle ==
    /\ u_call = "none"
    /\ u_T = 0
    /\ u_eta = 0
    /\ u_q = 0
    /\ u_ret = NoValue

Init ==
    /\ argv \in ArgVectors
    /\ ProgInit
    /\ UnitIdle

\* --------------------------------------------------------------------- main
\* exit(status) or return from main: the process and its device context end
Exit(status) ==
    /\ pc' = "exit"
    /\ exit_code' = Val(status)
    /\ stream' = <<>>

\* `argc != 3`
ArgcRejected(c) == c # 3

\* mutant: the check of n_max is missing
NmaxRejected_never(n) == FALSE

\* `n_max == 0`
NmaxRejected(n) == n = 0

\* `if (argc != 3) { usage; return 1; }`
CheckArgs ==
    /\ pc = "main"
    /\ IF ArgcRejected(argc)
       THEN /\ stderr' = "usage"
            /\ Exit(1)
       ELSE /\ pc' = "parse"
            /\ UNCHANGED <<stderr, exit_code, stream>>
    /\ UNCHANGED <<argv, T, n_max, d_min_eta, n0, result, reads, evaluated,
                   warned, verdict, pq>>
    /\ UNCHANGED unitVars

\* the two strtoull calls and `if (n_max == 0) { ...; return 1; }`
ParseArgs ==
    /\ pc = "parse"
    /\ T' = strtoull(argv[2])
    /\ n_max' = strtoull(argv[3])
    /\ IF NmaxRejected(n_max')
       THEN /\ stderr' = "n_max"
            /\ Exit(1)
       ELSE /\ pc' = "banner"
            /\ UNCHANGED <<stderr, exit_code, stream>>
    /\ UNCHANGED <<argv, d_min_eta, n0, result, reads, evaluated, warned,
                   verdict, pq>>
    /\ UNCHANGED unitVars

\* the banner, the echo of T and n_max, the warning, the device query
Banner ==
    /\ pc = "banner"
    /\ warned' = (T % 4 # 3)
    /\ pc' = "malloc"
    /\ UNCHANGED <<argv, T, n_max, d_min_eta, n0, stream, result, reads,
                   evaluated, stderr, verdict, pq, exit_code>>
    /\ UNCHANGED unitVars

\* ------------------------------------------------------- search_eta_chunked
\* `cudaMalloc(&d_min_eta, sizeof(uint64_t))`
Malloc ==
    /\ pc = "malloc"
    /\ d_min_eta' = Register("uninitialized", 0)
    /\ pc' = "memcpy_init"
    /\ UNCHANGED <<argv, T, n_max, n0, stream, result, reads, evaluated,
                   stderr, warned, verdict, pq, exit_code>>
    /\ UNCHANGED unitVars

\* mutant: the register is initialised to 0 instead of ULLONG_MAX
InitRegister_zero ==
    /\ pc = "memcpy_init"
    /\ d_min_eta' = Register("live", 0)
    /\ pc' = "events"
    /\ UNCHANGED <<argv, T, n_max, n0, stream, result, reads, evaluated,
                   stderr, warned, verdict, pq, exit_code>>
    /\ UNCHANGED unitVars

\* `init = ULLONG_MAX; cudaMemcpy(d_min_eta, &init, ..., HostToDevice)`
InitRegister ==
    /\ pc = "memcpy_init"
    /\ d_min_eta' = Register("live", ULLONG_MAX)
    /\ pc' = "events"
    /\ UNCHANGED <<argv, T, n_max, n0, stream, result, reads, evaluated,
                   stderr, warned, verdict, pq, exit_code>>
    /\ UNCHANGED unitVars

\* the two cudaEventCreate, cudaEventRecord(start), and `n0 = 1`
StartTimer ==
    /\ pc = "events"
    /\ n0' = 1
    /\ pc' = "loop"
    /\ UNCHANGED <<argv, T, n_max, d_min_eta, stream, result, reads,
                   evaluated, stderr, warned, verdict, pq, exit_code>>
    /\ UNCHANGED unitVars

\* one iteration of the chunk loop: the launch is asynchronous, the kernel
\* is appended to the stream and the host goes on
Launch ==
    /\ pc = "loop"
    /\ n0 <= n_max
    /\ Len(stream) < MaxInFlight
    /\ LET n1   == ChunkEnd(n0, n_max)
           grid == GridFor(n0, n1)
       IN  stream' = Append(stream, [n_start |-> n0, n_end |-> n1,
                                     todo |-> ThreadsOf(grid)])
    /\ n0' = NextChunkStart(n0)
    /\ UNCHANGED <<argv, pc, T, n_max, d_min_eta, result, reads, evaluated,
                   stderr, warned, verdict, pq, exit_code>>
    /\ UNCHANGED unitVars

\* the loop condition `n0 <= n_max` fails
LoopExit ==
    /\ pc = "loop"
    /\ ~(n0 <= n_max)
    /\ pc' = "sync"
    /\ UNCHANGED <<argv, T, n_max, d_min_eta, n0, stream, result, reads,
                   evaluated, stderr, warned, verdict, pq, exit_code>>
    /\ UNCHANGED unitVars

\* mutant: the barrier does not wait
Retired_nowait(st) == TRUE

\* what cudaDeviceSynchronize waits for: every launched kernel has retired
Retired(st) == st = <<>>

\* cudaDeviceSynchronize returns; then cudaEventRecord(stop) and
\* cudaEventSynchronize(stop)
DeviceSynchronize ==
    /\ pc = "sync"
    /\ Retired(stream)
    /\ pc' = "read"
    /\ UNCHANGED <<argv, T, n_max, d_min_eta, n0, stream, result, reads,
                   evaluated, stderr, warned, verdict, pq, exit_code>>
    /\ UNCHANGED unitVars

\* `cudaMemcpy(result, d_min_eta, ..., DeviceToHost)`
ReadBack ==
    /\ pc = "read"
    /\ result' = Val(d_min_eta.value)
    /\ reads' = reads + 1
    /\ pc' = "cleanup"
    /\ UNCHANGED <<argv, T, n_max, d_min_eta, n0, stream, evaluated, stderr,
                   warned, verdict, pq, exit_code>>
    /\ UNCHANGED unitVars

\* the timing lines, cudaFree and the two cudaEventDestroy
Cleanup ==
    /\ pc = "cleanup"
    /\ d_min_eta' = Register("freed", 0)
    /\ pc' = "verdict"
    /\ UNCHANGED <<argv, T, n_max, n0, stream, result, reads, evaluated,
                   stderr, warned, verdict, pq, exit_code>>
    /\ UNCHANGED unitVars

\* back in main: the found / not-found line, the meta lines, `return 0`
Verdict ==
    /\ pc = "verdict"
    /\ IF result[1] = ULLONG_MAX
       THEN /\ verdict' = "not_found"
            /\ pq' = NoValue
       ELSE /\ verdict' = "found"
            /\ pq' = Val(U64(4 * result[1] - 2 + TwoW))
    /\ Exit(0)
    /\ UNCHANGED <<argv, T, n_max, d_min_eta, n0, result, reads, evaluated,
                   stderr, warned>>
    /\ UNCHANGED unitVars

\* mutant: CUDA_CHECK prints the error and goes on
CudaFail_goes_on ==
    /\ \/ pc \in {"malloc", "memcpy_init", "events", "sync", "read", "cleanup"}
       \/ pc = "loop" /\ n0 <= n_max
    /\ stderr = "none"
    /\ stderr' = "cuda"
    /\ UNCHANGED <<argv, pc, T, n_max, d_min_eta, n0, stream, result, reads,
                   evaluated, warned, verdict, pq, exit_code>>
    /\ UNCHANGED unitVars

\* CUDA_CHECK: the call at the current statement reports an error
CudaFail ==
    /\ \/ pc \in {"malloc", "memcpy_init", "events", "sync", "read", "cleanup"}
       \/ pc = "loop" /\ n0 <= n_max
    /\ stderr' = "cuda"
    /\ Exit(EXIT_FAILURE)
    /\ UNCHANGED <<argv, T, n_max, d_min_eta, n0, result, reads, evaluated,
                   warned, verdict, pq>>
    /\ UNCHANGED unitVars

\* ------------------------------------------------------------------- device
\* one thread of the oldest kernel in the stream runs to its return; the
\* kernel leaves the stream with its last thread
ThreadRun(b, t) ==
    /\ pc # "exit"
    /\ stream # <<>>
    /\ <<b, t>> \in Head(stream).todo
    /\ LET k    == Head(stream)
           r    == KernelThread(T, k.n_start, k.n_end, b, t)
           left == k.todo \ {<<b, t>>}
       IN  /\ d_min_eta' = IF r.stage = "hit"
                           THEN Register("live",
                                         atomicMin(d_min_eta.value, r.eta))
                           ELSE d_min_eta
           /\ evaluated' = IF r.stage \in {"out_of_chunk", "above_ceiling"}
                           THEN evaluated
                           ELSE evaluated \cup {r}
           /\ stream' = IF left = {}
                        THEN Tail(stream)
                        ELSE <<[k EXCEPT !.todo = left]>> \o Tail(stream)
    /\ UNCHANGED <<argv, pc, T, n_max, n0, result, reads, stderr, warned,
                   verdict, pq, exit_code>>
    /\ UNCHANGED unitVars

Device == \E b \in 0 .. MAX_GRID_DIM - 1, t \in 0 .. BLOCK_SIZE - 1 : ThreadRun(b, t)

Host ==
    \/ CheckArgs
    \/ ParseArgs
    \/ Banner
    \/ Malloc
    \/ InitRegister
    \/ StartTimer
    \/ Launch
    \/ LoopExit
    \/ DeviceSynchronize
    \/ ReadBack
    \/ Cleanup
    \/ Verdict

Next ==
    \/ Host
    \/ CudaFail
    \/ Device

Spec == Init /\ [][Next]_vars

\* the host thread keeps executing, and the device keeps running the threads
\* it was given; a CUDA error is never forced
FairSpec == Spec /\ WF_vars(Host) /\ WF_vars(Device)

\* ------------------------------------------------------ function-level runs
\* the device functions applied directly to arguments drawn from the whole
\* word range; main is not started
UnitEtas == 0 .. (2 * ETA_CEILING + 2)

UnitInit ==
    /\ argv = <<PROG>>
    /\ ProgInit
    /\ UnitIdle

\* isqrt_uint64(n) and the test `y * y == candidate` built on it
CallSquareTest ==
    /\ u_call = "none"
    /\ \E n \in Word :
          /\ u_T' = n
          /\ u_ret' = [y |-> isqrt_uint64(n), square |-> SquareTest(n)]
    /\ u_call' = "square_test"
    /\ UNCHANGED <<u_eta, u_q>>
    /\ UNCHANGED progVars

\* is_qr_mod(val, mod) for the moduli of Q
CallIsQrMod ==
    /\ u_call = "none"
    /\ \E v \in Word, i \in 1 .. Len(Q) :
          /\ u_T' = v
          /\ u_q' = Q[i]
          /\ u_ret' = is_qr_mod(v, Q[i])
    /\ u_call' = "is_qr_mod"
    /\ UNCHANGED u_eta
    /\ UNCHANGED progVars

\* one thread of a launch whose chunk is the single index eta
CallKernelThread ==
    /\ u_call = "none"
    /\ \E t \in Word, eta \in UnitEtas :
          /\ u_T' = t
          /\ u_eta' = eta
          /\ u_ret' = KernelThread(t, eta, eta, 0, 0)
    /\ u_call' = "thread"
    /\ UNCHANGED u_q
    /\ UNCHANGED progVars

UnitNext ==
    \/ CallSquareTest
    \/ CallIsQrMod
    \/ CallKernelThread

UnitSpec == UnitInit /\ [][UnitNext]_vars

\* ============================================================== properties
MinOf(Z) == CHOOSE m \in Z : \A z \in Z : m <= z
Smaller(a, b) == IF a < b THEN a ELSE b

\* the etas an exhaustive sequential scan of [1, nmax] accepts, over the
\* integers
ScanHits(t, nmax) ==
    { e \in 1 .. Smaller(nmax, ETA_CEILING) :
         /\ t + (2 * e - 1) * (2 * e - 1) <= ULLONG_MAX
         /\ IsPerfectSquare(t + (2 * e - 1) * (2 * e - 1)) }
ExhaustiveScan(t, nmax) ==
    IF ScanHits(t, nmax) = {} THEN ULLONG_MAX ELSE MinOf(ScanHits(t, nmax))

\* the etas for which a retired thread performed atomicMin
HitEtas == { r.eta : r \in { h \in evaluated : h.stage = "hit" } }

\* [1, nmax] evaluated as one chunk: every index by one thread of one launch
SingleChunk(t, nmax) ==
    LET hits == { e \in 1 .. nmax :
                     KernelThread(t, 1, nmax, (e - 1) \div BLOCK_SIZE,
                                  (e - 1) % BLOCK_SIZE).stage = "hit" }
    IN  IF hits = {} THEN ULLONG_MAX ELSE MinOf(hits)

\* C1: the value stored in *result is what an exhaustive sequential scan
\* gives: the smallest eta of [1, n_max], within the ceiling and without
\* overflow, for which T + (2*eta-1)^2 is a perfect square, and the
\* sentinel iff there is none.
C1_ResultIsExhaustiveScan ==
    result # NoValue => result = Val(ExhaustiveScan(T, n_max))

\* C2: the register does not depend on the order in which the threads ran:
\* at every moment it is the minimum over the set of threads that have
\* performed atomicMin so far (the sentinel when none has), and so is the
\* value read back at the end.
C2_OrderIndependent ==
    /\ Live(d_min_eta) =>
          d_min_eta.value = MinOf(HitEtas \cup {ULLONG_MAX})
    /\ result # NoValue => result = Val(MinOf(HitEtas \cup {ULLONG_MAX}))

C2_Witness ==
    /\ Cardinality(HitEtas) >= 2
    /\ result = Val(MinOf(HitEtas))
    /\ exit_code = Val(0)

\* C3: the value the chunked dispatcher reads back is the value that
\* evaluating [1, n_max] as a single chunk gives.
C3_ChunkingInvisible ==
    result # NoValue => result = Val(SingleChunk(T, n_max))

C3_Witness ==
    /\ result # NoValue
    /\ result[1] # ULLONG_MAX
    /\ result[1] > CHUNK_SIZE
    /\ exit_code = Val(0)

\* C4: the exact square test accepts a candidate iff it is k^2 for some
\* integer k, for every candidate of the word range.
C4_SquareTestExact ==
    u_call = "square_test" => (u_ret.square <=> IsPerfectSquare(u_T))

\* C5: for every modulus q of Q and every v in [0, q), is_qr_mod(v, q) is
\* true iff some x in [0, q) has x*x mod q = v.
C5_TablesAreTheResidues ==
    (u_call = "is_qr_mod" /\ u_T < u_q) =>
        (u_ret <=> \E x \in 0 .. u_q - 1 : (x * x) % u_q = u_T)

\* C6: the residue filter rejects no perfect square: for every thread that
\* gets past the guards, the value tested for each q is (T + d2) mod q, and
\* when T + (2*eta-1)^2 is a perfect square the loop leaves survive true.
C6_NoFalseNegative ==
    (u_call = "thread" /\ u_ret.stage \in {"filtered", "not_square", "hit"}) =>
        LET v == u_T + (2 * u_eta - 1) * (2 * u_eta - 1)
        IN  /\ \A i \in 1 .. Len(Q) :
                  FilterTotal(u_T, u_ret.d2, Q[i]) = v % Q[i]
            /\ IsPerfectSquare(v) => u_ret.stage # "filtered"

C6_Witness ==
    /\ u_call = "thread"
    /\ u_ret.stage = "hit"
    /\ IsPerfectSquare(u_T + (2 * u_eta - 1) * (2 * u_eta - 1))
    /\ u_eta > 1

\* the search completes: the register is read back, unless a CUDA call
\* reported an error (a behaviour property, for FairSpec)
SearchCompletes == <>(reads = 1 \/ stderr # "none")

\* C7: for every n_max >= 1 the chunk loop launches finitely many chunks and
\* then ends.  The loop is a deterministic function of n0, which starts at
\* 1 and is advanced by a bijection of the words, so the loop goes on for
\* ever exactly when n0 comes back to 1: the claim is that it never does.
C7_LoopLeavesItsStart ==
    [][(pc = "loop" /\ n0' # n0) => n0' # 1]_vars

\* C8: a thread whose eta is above the ceiling, or whose d^2 exceeds
\* ULLONG_MAX - T, returns before the filter, the square test and atomicMin;
\* for a thread that gets past the guards 2*eta-1, d*d and T + d*d are the
\* integer values, not wrapped ones; the index at the ceiling is evaluated
\* whenever n_max reaches it, the index one past it never.
C8_GuardsUnconditional ==
    /\ \A r \in evaluated :
          /\ r.eta \in 1 .. ETA_CEILING
          /\ r.d = 2 * r.eta - 1
          /\ r.d2 = r.d * r.d
          /\ (r.stage = "overflow") <=> (T + r.d2 > ULLONG_MAX)
          /\ r.stage \in {"not_square", "hit"} => r.candidate = T + r.d2
    /\ HitEtas \subseteq 1 .. ETA_CEILING
    /\ (result # NoValue /\ n_max >= ETA_CEILING) =>
          \E r \in evaluated : r.eta = ETA_CEILING

C8_Witness ==
    /\ result # NoValue
    /\ n_max > ETA_CEILING
    /\ \E r \in evaluated : r.eta = ETA_CEILING /\ r.stage = "overflow"
    /\ \E r \in evaluated : r.stage # "overflow"

\* the phase of the search the host is in: 1 Initialized, 2 Dispatching,
\* 3 Synchronized, 4 Finalized; 0 before the register is initialised
PhaseRank(p) ==
    CASE p \in {"main", "parse", "banner", "malloc", "memcpy_init"} -> 0
      [] p = "events" -> 1
      [] p \in {"loop", "sync"} -> 2
      [] p = "read" -> 3
      [] p \in {"cleanup", "verdict"} -> 4
      [] OTHER -> 5

\* C9: the phases follow one another in order; the register holds the
\* sentinel when dispatching starts; the register is read once, only when
\* every thread of every launched kernel has retired, and *result and the
\* verdict are written only after that read; no thread runs after the read.
C9_PhasesInOrder ==
    [][ /\ pc' # "exit" => PhaseRank(pc') \in {PhaseRank(pc), PhaseRank(pc) + 1}
        /\ (pc = "events" /\ pc' = "loop") =>
              d_min_eta = Register("live", ULLONG_MAX) /\ stream = <<>>
        /\ Len(stream') > Len(stream) => Live(d_min_eta)
        /\ reads' <= 1
        /\ reads' # reads => stream = <<>> /\ Live(d_min_eta)
        /\ reads >= 1 =>
              /\ evaluated' = evaluated
              /\ stream' = <<>>
              /\ d_min_eta' = d_min_eta \/ d_min_eta'.state = "freed"
        /\ (result' # result \/ verdict' # verdict) => reads' = 1
      ]_vars

C9_Witness ==
    /\ pc = "exit"
    /\ reads = 1
    /\ verdict = "found"
    /\ Cardinality(evaluated) > CHUNK_SIZE

\* C10: when the argument count is not two or n_max parses to 0, main
\* returns 1 and nothing is computed: the register is never allocated, no
\* kernel is launched, no verdict is printed.  Every other run that ends
\* without a CUDA error returns 0 and has printed a verdict.
C10_UsageError ==
    LET usage == argc # 3 \/ (pc \notin {"main", "parse"} /\ n_max = 0)
    IN  /\ usage =>
              /\ pc \in {"main", "exit"}
              /\ d_min_eta.state = "unallocated"
              /\ stream = <<>>
              /\ evaluated = {}
              /\ reads = 0
              /\ verdict = "none"
              /\ pc = "exit" => exit_code = Val(1) /\ stderr \in {"usage", "n_max"}
        /\ (~usage /\ pc = "exit" /\ stderr # "cuda") =>
              /\ exit_code = Val(0)
              /\ verdict \in {"found", "not_found"}

C10_Witness ==
    /\ argc = 3
    /\ pc = "exit"
    /\ exit_code = Val(1)
    /\ stderr = "n_max"

\* C11: a failing CUDA call of the search ends the process at once with a
\* failure status, whatever the search had done by then, and neither the
\* found nor the not-found line is ever printed in that run.
C11_FailureIsFatal ==
    stderr = "cuda" =>
        /\ pc = "exit"
        /\ exit_code = Val(EXIT_FAILURE)
        /\ exit_code # Val(0)
        /\ verdict = "none"
        /\ pq = NoValue
        /\ stream = <<>>

C11_Witness ==
    /\ stderr = "cuda"
    /\ result # NoValue
    /\ result[1] # ULLONG_MAX
    /\ verdict = "none"

\* C12: the command line `3 10` ends with result 1, the found line and the
\* printed |p - q| = 4*1 - 2 = 2.
C12_Scenario ==
    (argv = <<PROG, <<"3">>, <<"1", "0">>>> /\ pc = "exit" /\ stderr = "none") =>
        /\ T = 3
        /\ n_max = 10
        /\ \E r \in evaluated :
              r.eta = 1 /\ r.d = 1 /\ r.candidate = 4 /\ r.stage = "hit"
        /\ result = Val(1)
        /\ verdict = "found"
        /\ pq = Val(2)
        /\ exit_code = Val(0)

C12_Witness ==
    /\ argv = <<PROG, <<"3">>, <<"1", "0">>>>
    /\ pc = "exit"
    /\ verdict = "found"
    /\ pq = Val(2)

\* C13: isqrt_uint64(n) is the floor of the square root for every n of the
\* word range: the returned r has r*r <= n < (r+1)*(r+1).
C13_IsqrtIsFloor ==
    u_call = "square_test" =>
        /\ u_ret.y * u_ret.y <= u_T
        /\ u_T < (u_ret.y + 1) * (u_ret.y + 1)

\* C14: the launched chunks partition [1, n_max].  The first chunk starts at
\* 1; every launched range [n0, n1] has 1 <= n0 <= n1 <= n_max, holds at most
\* BLOCK_SIZE * MAX_GRID_DIM indices in a grid of at most MAX_GRID_DIM blocks
\* that the 32-bit grid value holds without truncation; the next chunk starts
\* at n1 + 1, and the loop ends exactly when a chunk ended at n_max; in a
\* chunk every index of [n0, n1] belongs to exactly one thread and the
\* threads beyond n1 do nothing.
LaunchedChunkIsWellFormed(k, next_n0) ==
    LET size     == k.n_end - k.n_start + 1
        grid     == Cardinality(k.todo) \div BLOCK_SIZE
        of(bt)   == KernelThread(T, k.n_start, k.n_end, bt[1], bt[2])
    IN  /\ 1 <= k.n_start
        /\ k.n_start <= k.n_end
        /\ k.n_end <= n_max
        /\ size <= BLOCK_SIZE * MAX_GRID_DIM
        /\ grid <= MAX_GRID_DIM
        /\ grid * BLOCK_SIZE >= size
        /\ grid = (size + BLOCK_SIZE - 1) \div BLOCK_SIZE
        /\ IF k.n_end < n_max
           THEN next_n0 = k.n_end + 1 /\ next_n0 <= n_max
           ELSE next_n0 > n_max
        /\ \A e \in k.n_start .. k.n_end :
              Cardinality({bt \in k.todo : of(bt).eta = e}) = 1
        /\ \A bt \in k.todo :
              of(bt).eta > k.n_end => of(bt).stage = "out_of_chunk"

C14_ChunksPartition ==
    [][ /\ (pc = "events" /\ pc' = "loop") => n0' = 1
        /\ (pc = "loop" /\ Len(stream') > Len(stream)) =>
              /\ stream'[Len(stream')].n_start = n0
              /\ LaunchedChunkIsWellFormed(stream'[Len(stream')], n0')
      ]_vars

\* C15: the register never grows.  It becomes live holding the sentinel, and
\* from then on a step either leaves it alone or is a thread's atomicMin
\* that lowers it to that thread's eta.
C15_RegisterNeverGrows ==
    [][ /\ (~Live(d_min_eta) /\ Live(d_min_eta')) =>
              d_min_eta'.value = ULLONG_MAX
        /\ (Live(d_min_eta) /\ Live(d_min_eta')) =>
              /\ d_min_eta'.value <= d_min_eta.value
              /\ d_min_eta'.value # d_min_eta.value =>
                    /\ stream # <<>>
                    /\ \E r \in evaluated' :
                          r.stage = "hit" /\ r.eta = d_min_eta'.value
      ]_vars

C15_Witness ==
    /\ Live(d_min_eta)
    /\ d_min_eta.value < ULLONG_MAX
    /\ \E h \in HitEtas : h > d_min_eta.value
    /\ stream # <<>>

\* C16: the register holds the sentinel or the index of a thread that
\* performed atomicMin, every such index lies in 1 .. min(n_max, ceiling)
\* and so is never the sentinel, and the result read back is the sentinel
\* exactly when no thread performed atomicMin.
C16_SentinelUnambiguous ==
    /\ \A h \in HitEtas :
          /\ 1 <= h
          /\ h <= Smaller(n_max, ETA_CEILING)
          /\ h # ULLONG_MAX
    /\ Live(d_min_eta) =>
          \/ d_min_eta.value = ULLONG_MAX /\ HitEtas = {}
          \/ d_min_eta.value \in HitEtas
    /\ result # NoValue => (result = Val(ULLONG_MAX) <=> HitEtas = {})
    /\ verdict = "not_found" => (result = Val(ULLONG_MAX) /\ HitEtas = {})
    /\ verdict = "found" => (result # NoValue /\ result[1] \in HitEtas)

C16_Witness ==
    /\ n_max = ULLONG_MAX
    /\ Live(d_min_eta)
    /\ d_min_eta.value \in HitEtas
    /\ \E r \in evaluated : r.eta = ETA_CEILING

====
